---- MODULE Spec2Model ----
(***************************************************************************)
(* State-machine model of src/dfd.py, a Streamlit dashboard script.       *)
(* One render pass is one top-to-bottom execution of the script; the      *)
(* actions below are the consecutive sections of the script, and the      *)
(* variable pc is the script's position.  The only state that survives a  *)
(* pass is the st.cache_data cache of load_data and the file on disk.     *)
(***************************************************************************)
EXTENDS Integers, Sequences, FiniteSets, TLC

\* ------------------------------------------------------------ bounds
\* Largest number of data rows of a generated table.
MaxRows == 2
\* Number of distinct years a generated row can carry (2000, 2001, ...).
NumYears == 3
\* Number of render passes (script reruns) explored in one process.
MaxPasses == 2

\* ------------------------------------------------------------ values
\* pandas' missing value (what isnull() detects); real cells are >= 0.
NaN == -1

Years == 2000 .. (1999 + NumYears)

\* Python's None (df is None) and a present value, as a 0/1-element sequence.
None == << >>
Some(x) == << x >>

\* ------------------------------------------------------------ columns
\* regions = ["亚洲", "非洲", "拉丁美洲", "大洋洲"]
regions == << "Asia", "Africa", "LatinAmerica", "Oceania" >>

\* f"{region}贡献(%)"
ContribCol(region) == region \o "_contribution_pct"

\* f"{region}颜色"
ColorCol(region) == region \o "_color"

\* required_columns, in the order of the list literal
required_columns ==
    << "year", "global_south_share_pct", "Asia_contribution_pct",
       "Africa_contribution_pct", "LatinAmerica_contribution_pct",
       "Oceania_contribution_pct" >>

\* region_colors = {...}: dict in insertion order, as keys and a lookup
region_color_keys == << "Asia", "Africa", "LatinAmerica", "Oceania" >>
region_color_of ==
    ("Asia" :> "#32CD32") @@ ("Africa" :> "#FFA500") @@
    ("LatinAmerica" :> "#FF6347") @@ ("Oceania" :> "#1E90FF")

Range(s) == { s[i] : i \in 1 .. Len(s) }

\* ------------------------------------------------------------ tables
\* A DataFrame: its column labels and its rows in file order; a row maps
\* every column label to its cell.
MkTable(cols, rows) == [cols |-> cols, rows |-> rows]

\* The cell a generated row of year y holds in a numeric column.
RegionIndex(region) == CHOOSE i \in 1 .. Len(regions) : regions[i] = region
CellValue(col, y) ==
    IF col = "year" THEN y
    ELSE IF col = "global_south_share_pct" THEN 30 + 2 * (y - 2000)
    ELSE LET r == CHOOSE r \in Range(regions) : ContribCol(r) = col
         IN  10 * RegionIndex(r) + (y - 2000)

\* A generated row over columns cols: year y, NaN in the columns of nulls,
\* a foreign colour in any colour column the file already carries.
MkRow(cols, y, nulls) ==
    [c \in cols |->
        IF c \in nulls THEN NaN
        ELSE IF c \in Range(required_columns) THEN CellValue(c, y)
        ELSE "#000000"]

RequiredSet == Range(required_columns)

\* Tables that vary the schema: any subset of the required columns present,
\* any subset of those holding a missing value in the last row, one or two rows.
SchemaTables ==
    UNION { UNION { { MkTable(cols, << MkRow(cols, 2000, nulls) >>),
                      MkTable(cols, << MkRow(cols, 2001, {}), MkRow(cols, 2000, nulls) >>) } :
                    nulls \in SUBSET cols } :
            cols \in (SUBSET RequiredSet) \ {{}} }

\* Tables that vary the rows: every required column present and filled, any
\* sequence of 1..MaxRows rows over Years (unsorted, gapped and repeated years
\* included).
RowSeqs == UNION { [1 .. n -> Years] : n \in 1 .. MaxRows }
RowTables ==
    { MkTable(RequiredSet, [i \in 1 .. Len(ys) |-> MkRow(RequiredSet, ys[i], {})]) :
        ys \in RowSeqs }

\* Tables whose file already carries some of the colour columns.
ColourTables ==
    { MkTable(RequiredSet \cup extra, << MkRow(RequiredSet \cup extra, 2000, {}) >>) :
        extra \in SUBSET { ColorCol(regions[i]) : i \in 1 .. Len(regions) } }

\* A parsed file with a header row and no data row.
HeaderOnly == MkTable(RequiredSet, << >>)

\* ------------------------------------------------------------ the file
\* The file at csv_file_path as the loader can observe it: os.path.exists,
\* os.access(R_OK), the exception pd.read_csv raises ("none": it parses),
\* and the table it parses to.
csv_file_path == "global_south_gdp.csv"

MkFile(exists, readable, raises, table) ==
    [exists |-> exists, readable |-> readable, raises |-> raises, table |-> table]

MissingFile == MkFile(FALSE, FALSE, "none", HeaderOnly)
UnreadableFile == MkFile(TRUE, FALSE, "none", HeaderOnly)
BrokenFile(exc) == MkFile(TRUE, TRUE, exc, HeaderOnly)
GoodFile(t) == MkFile(TRUE, TRUE, "none", t)

\* What pd.read_csv raises on a file it cannot turn into a table: a
\* tokenizing error, a file with no columns, bytes that are not UTF-8, a
\* path that is a directory.
ReadCsvErrors ==
    { "ParserError", "EmptyDataError", "UnicodeDecodeError", "IsADirectoryError" }

\* The files of the dashboard specification.
DiskTables ==
    { MkTable(RequiredSet, << MkRow(RequiredSet, 2000, {}), MkRow(RequiredSet, 2002, {}) >>),
      MkTable(RequiredSet, << MkRow(RequiredSet, 2001, {}), MkRow(RequiredSet, 2000, {}) >>),
      MkTable(RequiredSet, << MkRow(RequiredSet, 2001, {"Africa_contribution_pct"}) >>),
      MkTable({"year", "Asia_contribution_pct"},
              << MkRow({"year", "Asia_contribution_pct"}, 2000, {}) >>),
      HeaderOnly }
Files ==
    { MissingFile, UnreadableFile } \cup
    { BrokenFile(exc) : exc \in ReadCsvErrors } \cup
    { GoodFile(t) : t \in DiskTables }

\* ------------------------------------------------------------ UI output
\* One element written to the page: the st.* call (kind), the section of
\* the script that made it (src), and what it names (labels, numbers).
UiElem(kind, src, labels, nums) ==
    [kind |-> kind, src |-> src, labels |-> labels, nums |-> nums]

\* ------------------------------------------------------------ load_data
\* Python's exception hierarchy, as far as the except clauses tell apart.
BaseClasses(exc) ==
    CASE exc = "FileNotFoundError"  -> { "FileNotFoundError", "OSError", "Exception" }
      [] exc = "PermissionError"    -> { "PermissionError", "OSError", "Exception" }
      [] exc = "IsADirectoryError"  -> { "IsADirectoryError", "OSError", "Exception" }
      [] exc = "ParserError"        -> { "ParserError", "ValueError", "Exception" }
      [] exc = "EmptyDataError"     -> { "EmptyDataError", "ValueError", "Exception" }
      [] exc = "UnicodeDecodeError" -> { "UnicodeDecodeError", "ValueError", "Exception" }
      [] exc = "ValueError"         -> { "ValueError", "Exception" }
      [] OTHER                      -> { exc, "Exception" }

\* df.empty
IsEmptyNever(t) == FALSE
IsEmpty(t) == t.rows = << >> \/ t.cols = {}

\* The exception the try body raises ("none": it reaches return df).
Raised(f) ==
    IF ~ f.exists THEN "FileNotFoundError"
    ELSE IF ~ f.readable THEN "PermissionError"
    ELSE IF f.raises # "none" THEN f.raises
    ELSE IF IsEmpty(f.table) THEN "ValueError"
    ELSE "none"

\* The except clauses in textual order; the first whose class matches runs.
except_clauses ==
    << "FileNotFoundError", "PermissionError", "ParserError", "ValueError", "Exception" >>

Handler(exc) ==
    LET hits == { i \in 1 .. Len(except_clauses) : except_clauses[i] \in BaseClasses(exc) }
    IN  except_clauses[CHOOSE i \in hits : \A j \in hits : i <= j]

\* One execution of load_data's body on file f: the value returned and the
\* st.* elements written from inside the function.
load_data(f) ==
    IF Raised(f) = "none"
    THEN [value |-> Some(f.table),
          msgs  |-> << UiElem("success", "load_data", << csv_file_path >>, << >>) >>]
    ELSE [value |-> None,
          msgs  |-> << UiElem("error", "load_data", << Handler(Raised(f)) >>, << >>) >>]

\* ------------------------------------------------------------ state
VARIABLES
    file,          \* the file at csv_file_path
    cache,         \* st.cache_data of load_data: path -> None or Some(entry)
    fsReads,       \* executions of load_data's body (filesystem touches)
    firstLoad,     \* None, or Some(value returned by the first load_data call)
    passes,        \* render passes started
    validations,   \* executions of the schema check
    okLoads,       \* executions of load_data's body that returned a table
    pc,            \* position of the running pass
    df,            \* the pass's df: None or Some(table)
    ui,            \* elements written to the page in this pass, in order
    steps,         \* sections of the script executed in this pass, in order
    selected_regions,
    selected_year,
    df_melted,
    year_data

vars == << file, cache, fsReads, firstLoad, passes, validations, okLoads, pc, df, ui,
           steps, selected_regions, selected_year, df_melted, year_data >>

procVars == << file, cache, fsReads, firstLoad, passes, validations, okLoads >>
widgetVars == << selected_regions, selected_year, df_melted, year_data >>

\* selected_year before the slider has run
NoYear == 0

\* The process has started and no script run has happened yet.
Init ==
    /\ file \in Files
    /\ cache = [p \in { csv_file_path } |-> None]
    /\ fsReads = 0
    /\ firstLoad = None
    /\ passes = 0
    /\ validations = 0
    /\ okLoads = 0
    /\ pc = "idle"
    /\ df = None
    /\ ui = << >>
    /\ steps = << >>
    /\ selected_regions = << >>
    /\ selected_year = NoYear
    /\ df_melted = << >>
    /\ year_data = << >>

Finished == pc \in { "idle", "done", "stopped", "crashed" }

\* Between passes anything may happen to the file on disk.
FileChange ==
    /\ Finished
    /\ file' \in Files \ { file }
    /\ UNCHANGED << cache, fsReads, firstLoad, passes, validations, okLoads, pc, df, ui,
                    steps, selected_regions, selected_year, df_melted, year_data >>

\* A user interaction reruns the script from the top: page config, CSS, the
\* title block, the sidebar header and the path info (lines 15-120).
Rerun ==
    /\ Finished
    /\ passes < MaxPasses
    /\ passes' = passes + 1
    /\ pc' = "load"
    /\ df' = None
    /\ ui' = << UiElem("markdown", "title", << >>, << >>),
               UiElem("info", "sidebar", << csv_file_path >>, << >>) >>
    /\ steps' = << "title" >>
    /\ selected_regions' = << >>
    /\ selected_year' = NoYear
    /\ df_melted' = << >>
    /\ year_data' = << >>
    /\ UNCHANGED << file, cache, fsReads, firstLoad, validations, okLoads >>

\* @st.cache_data: an entry for the arguments means the body is not run.
CacheMissAlways(c, path) == FALSE
CacheHit(c, path) == c[path] # None

\* What the decorated call returns and writes: on a hit the stored value (a
\* fresh copy) and a replay of the elements the body wrote; on a miss the
\* body's own.
CachedCallNoReplay(c, path, f) ==
    IF CacheHit(c, path) THEN [value |-> c[path][1].value, msgs |-> << >>] ELSE load_data(f)
CachedCall(c, path, f) ==
    IF CacheHit(c, path) THEN c[path][1] ELSE load_data(f)

\* df = load_data(csv_file_path); if df is None: st.error(...); st.stop()
LoadData ==
    /\ pc = "load"
    /\ LET hit == CacheHit(cache, csv_file_path)
           res == CachedCall(cache, csv_file_path, file)
       IN  /\ cache' = IF hit THEN cache
                       ELSE [cache EXCEPT ![csv_file_path] = Some(res)]
           /\ fsReads' = IF hit THEN fsReads ELSE fsReads + 1
           /\ okLoads' = IF ~ hit /\ res.value # None THEN okLoads + 1 ELSE okLoads
           /\ firstLoad' = IF firstLoad = None THEN Some(res.value) ELSE firstLoad
           /\ df' = res.value
           /\ ui' = ui \o res.msgs \o
                    ( IF res.value = None
                      THEN << UiElem("error", "main", << "load_failed" >>, << >>) >>
                      ELSE << >> )
           /\ pc' = IF res.value = None THEN "stopped" ELSE "validate"
           /\ steps' = Append(steps, "load")
    /\ UNCHANGED << file, passes, validations, selected_regions, selected_year,
                    df_melted, year_data >>

\* ------------------------------------------------------------ schema check
\* missing_columns = [col for col in required_columns if col not in df.columns]
missing_columns_first_only(t) ==
    LET all == SelectSeq(required_columns, LAMBDA col : col \notin t.cols)
    IN  IF all = << >> THEN << >> ELSE << Head(all) >>
missing_columns(t) == SelectSeq(required_columns, LAMBDA col : col \notin t.cols)

\* df[col].isnull().any()
HasNull(t, col) == \E i \in 1 .. Len(t.rows) : t.rows[i][col] = NaN

\* for col in required_columns: if df[col].isnull().any(): st.warning(...)
null_warnings(t) ==
    LET withNull == SelectSeq(required_columns, LAMBDA col : HasNull(t, col))
    IN  [i \in 1 .. Len(withNull) |-> UiElem("warning", "validate", << withNull[i] >>, << >>)]

ValidateSkipped ==
    /\ pc = "validate"
    /\ pc' = "colors"
    /\ UNCHANGED << procVars, df, ui, steps, widgetVars >>

\* The required-column check and the missing-value scan (lines 141-150).
Validate ==
    /\ pc = "validate"
    /\ LET t == df[1]
           missing == missing_columns(t)
       IN  IF missing # << >>
           THEN /\ ui' = ui \o << UiElem("error", "validate", missing, << >>),
                                  UiElem("error", "validate_hint", required_columns, << >>) >>
                /\ pc' = "stopped"
           ELSE /\ ui' = ui \o null_warnings(t)
                /\ pc' = "colors"
    /\ validations' = validations + 1
    /\ steps' = Append(steps, "validate")
    /\ UNCHANGED << file, cache, fsReads, firstLoad, passes, okLoads, df,
                    selected_regions, selected_year, df_melted, year_data >>

\* ------------------------------------------------------------ colours
\* if f"{region}颜色" not in df.columns: df[f"{region}颜色"] = color
add_color_overwrite(t, region) ==
    MkTable(t.cols \cup { ColorCol(region) },
            [i \in 1 .. Len(t.rows) |->
                (ColorCol(region) :> region_color_of[region]) @@ t.rows[i]])
add_color(t, region) ==
    IF ColorCol(region) \in t.cols THEN t
    ELSE MkTable(t.cols \cup { ColorCol(region) },
                 [i \in 1 .. Len(t.rows) |->
                     (ColorCol(region) :> region_color_of[region]) @@ t.rows[i]])

\* for region, color in region_colors.items(): ...
RECURSIVE ensure_colors_loop(_, _)
ensure_colors_loop(t, keys) ==
    IF keys = << >> THEN t
    ELSE ensure_colors_loop(add_color(t, Head(keys)), Tail(keys))

ensure_colors(t) == ensure_colors_loop(t, region_color_keys)

EnsureColors ==
    /\ pc = "colors"
    /\ df' = Some(ensure_colors(df[1]))
    /\ pc' = "sidebar"
    /\ steps' = Append(steps, "colors")
    /\ UNCHANGED << procVars, ui, widgetVars >>

\* ------------------------------------------------------------ sidebar
\* What st.multiselect can return: the chosen options in the order chosen,
\* none repeated, the empty list included.
Selections ==
    { s \in UNION { [1 .. n -> Range(regions)] : n \in 0 .. Len(regions) } :
        \A i, j \in 1 .. Len(s) : i # j => s[i] # s[j] }

\* The sidebar: region multiselect, speed slider, about text (lines 165-203).
Sidebar ==
    /\ pc = "sidebar"
    /\ \E sel \in Selections :
          /\ selected_regions' = sel
          /\ ui' = Append(ui, UiElem("multiselect", "sidebar", sel, << >>))
    /\ pc' = "line_chart"
    /\ steps' = Append(steps, "sidebar")
    /\ UNCHANGED << procVars, df, selected_year, df_melted, year_data >>

\* ------------------------------------------------------------ aggregates
Min(S) == CHOOSE x \in S : \A y \in S : x <= y
Max(S) == CHOOSE x \in S : \A y \in S : x >= y

\* The non-missing cells of a column.
Present(t, col) == { t.rows[i][col] : i \in 1 .. Len(t.rows) } \ { NaN }

\* df[col].min() / df[col].max(): missing values skipped, NaN if none is left
ColMin(t, col) == IF Present(t, col) = {} THEN NaN ELSE Min(Present(t, col))
ColMax(t, col) == IF Present(t, col) = {} THEN NaN ELSE Max(Present(t, col))

\* df.iloc[0][col] / df.iloc[-1][col]: the first and the last row of the file
iloc_first(t, col) == t.rows[1][col]
iloc_last(t, col) == t.rows[Len(t.rows)][col]

\* The line chart with its min/max lines and the two summary cards
\* (lines 206-424).
LineChart ==
    /\ pc = "line_chart"
    /\ LET t == df[1]
           share == "global_south_share_pct"
       IN  ui' = ui \o
             << UiElem("chart", "line_chart", << share >>,
                       << ColMin(t, share), ColMax(t, share) >>),
                UiElem("card", "start_card", << share >>,
                       << ColMin(t, "year"), iloc_first(t, share) >>),
                UiElem("card", "current_card", << share >>,
                       << ColMax(t, "year"), iloc_last(t, share) >>) >>
    /\ pc' = "region_chart"
    /\ steps' = steps \o << "line_chart", "cards" >>
    /\ UNCHANGED << procVars, df, widgetVars >>

\* ------------------------------------------------------------ reshape
\* region_columns = [f"{region}贡献(%)" for region in selected_regions]
region_columns_of(sel) == [i \in 1 .. Len(sel) |-> ContribCol(sel[i])]

\* One value column of pd.melt: a record per row, in row order.
melt_column(t, col) ==
    [i \in 1 .. Len(t.rows) |->
        [year |-> t.rows[i]["year"], region |-> col, contribution |-> t.rows[i][col]]]

\* One row of a row-by-row reshape: a record per value column.
melt_row(t, i, value_vars) ==
    [j \in 1 .. Len(value_vars) |->
        [year |-> t.rows[i]["year"], region |-> value_vars[j],
         contribution |-> t.rows[i][value_vars[j]]]]

RECURSIVE melt_by_row(_, _, _)
melt_by_row(t, i, value_vars) ==
    IF i > Len(t.rows) THEN << >>
    ELSE melt_row(t, i, value_vars) \o melt_by_row(t, i + 1, value_vars)

melt_row_major(t, value_vars) == melt_by_row(t, 1, value_vars)

\* pd.melt(df, id_vars=["年份"], value_vars=..., var_name="区域",
\* value_name="贡献(%)"): the value columns stacked one after another.
RECURSIVE melt_stack(_, _)
melt_stack(t, value_vars) ==
    IF value_vars = << >> THEN << >>
    ELSE melt_column(t, Head(value_vars)) \o melt_stack(t, Tail(value_vars))

melt(t, value_vars) == melt_stack(t, value_vars)

\* df_melted.loc[df_melted["区域"] == f"{region}贡献(%)", "区域"] = region
rename_region(m, region) ==
    [i \in 1 .. Len(m) |->
        IF m[i].region = ContribCol(region) THEN [m[i] EXCEPT !.region = region]
        ELSE m[i]]

\* for region in regions: ...
RECURSIVE rename_loop(_, _)
rename_loop(m, rs) ==
    IF rs = << >> THEN m ELSE rename_loop(rename_region(m, Head(rs)), Tail(rs))

rename_none(m) == m
rename_regions(m) == rename_loop(m, regions)

\* df[region_columns].max().max(): NaN when no cell is left
FrameMax(t, cols) ==
    LET cells == UNION { Present(t, cols[j]) : j \in 1 .. Len(cols) }
    IN  IF cells = {} THEN NaN ELSE Max(cells)

\* The animated region bar chart (lines 426-535).
RegionChart ==
    /\ pc = "region_chart"
    /\ LET t == df[1]
           region_columns == region_columns_of(selected_regions)
       IN  /\ df_melted' = rename_regions(melt(t, region_columns))
           /\ ui' = Append(ui, UiElem("chart", "region_chart", selected_regions,
                                      << FrameMax(t, region_columns) >>))
    /\ pc' = "year_pie"
    /\ steps' = steps \o << "melt", "region_chart" >>
    /\ UNCHANGED << procVars, df, selected_regions, selected_year, year_data >>

\* ------------------------------------------------------------ year slice
\* df[df["年份"] == selected_year]
year_slice(t, year) == SelectSeq(t.rows, LAMBDA row : row["year"] = year)

\* The year slider and the pie chart of the chosen year (lines 537-578).
\* int(df["年份"].min()) raises ValueError when every year is missing.
YearPie ==
    /\ pc = "year_pie"
    /\ LET t == df[1]
           lo == ColMin(t, "year")
           hi == ColMax(t, "year")
       IN  IF lo = NaN
           THEN /\ pc' = "crashed"
                /\ ui' = Append(ui, UiElem("exception", "year_slider", << "ValueError" >>, << >>))
                /\ UNCHANGED << selected_year, year_data >>
           ELSE \E year \in lo .. hi :
                  /\ selected_year' = year
                  /\ year_data' = year_slice(t, year)
                  /\ ui' = ui \o
                       << UiElem("slider", "year_slider", << >>, << lo, hi, year >>),
                          IF year_slice(t, year) # << >>
                          THEN UiElem("chart", "pie", selected_regions,
                                      [j \in 1 .. Len(selected_regions) |->
                                          year_slice(t, year)[1][ContribCol(selected_regions[j])]])
                          ELSE UiElem("warning", "year_slice", << >>, << year >>) >>
                  /\ pc' = "export"
    /\ steps' = Append(steps, "year_slice")
    /\ UNCHANGED << procVars, df, selected_regions, df_melted >>

\* ------------------------------------------------------------ export, table
\* The CSV and Excel downloads and the data table (lines 580-620).
ExportTable ==
    /\ pc = "export"
    /\ LET t == df[1]
           shape == << Len(t.rows), Cardinality(t.cols) >>
       IN  ui' = ui \o << UiElem("download", "csv", << >>, shape),
                          UiElem("download", "excel", << >>, shape),
                          UiElem("dataframe", "table", << >>, shape) >>
    /\ pc' = "insights"
    /\ steps' = steps \o << "export", "table" >>
    /\ UNCHANGED << procVars, df, widgetVars >>

\* ------------------------------------------------------------ insights
RECURSIVE SumSet(_)
SumSet(S) == IF S = {} THEN 0 ELSE LET x == CHOOSE x \in S : TRUE IN x[2] + SumSet(S \ { x })

\* df[col].sum(): missing values skipped
ColSum(t, col) ==
    SumSet({ << i, t.rows[i][col] >> : i \in { k \in 1 .. Len(t.rows) : t.rows[k][col] # NaN } })

\* df[region_columns].sum(axis=0).idxmax().replace('贡献(%)', ''): the first
\* column holding the largest sum, its suffix removed
idxmax_region(t, sel) ==
    LET best == Max({ ColSum(t, ContribCol(sel[j])) : j \in 1 .. Len(sel) })
        at   == Min({ j \in 1 .. Len(sel) : ColSum(t, ContribCol(sel[j])) = best })
    IN  sel[at]

\* The insight cards and the footer (lines 622-667).  idxmax of an empty
\* Series raises ValueError.
Insights ==
    /\ pc = "insights"
    /\ LET t == df[1]
           share == "global_south_share_pct"
       IN  IF selected_regions = << >>
           THEN /\ pc' = "crashed"
                /\ ui' = Append(ui, UiElem("exception", "insights", << "ValueError" >>, << >>))
                /\ steps' = steps
           ELSE /\ pc' = "done"
                /\ ui' = ui \o
                     << UiElem("markdown", "insights",
                               << idxmax_region(t, selected_regions) >>,
                               << iloc_first(t, share), iloc_last(t, share) >>),
                        UiElem("markdown", "footer", << >>, << >>) >>
                /\ steps' = Append(steps, "insights")
    /\ UNCHANGED << procVars, df, widgetVars >>

\* ------------------------------------------------------------ specifications
Pass ==
    \/ LoadData
    \/ Validate
    \/ EnsureColors
    \/ Sidebar
    \/ LineChart
    \/ RegionChart
    \/ YearPie
    \/ ExportTable
    \/ Insights

\* The dashboard process: reruns of the script over a file that may change.
Next == FileChange \/ Rerun \/ Pass

Spec == Init /\ [][Next]_vars

\* One pass over every generated table: the state right after load_data has
\* returned the table on the process's first pass.
LoadedTables == SchemaTables \cup RowTables \cup ColourTables

TableInit ==
    /\ \E t \in LoadedTables :
          /\ file = GoodFile(t)
          /\ cache = [p \in { csv_file_path } |-> Some(load_data(GoodFile(t)))]
          /\ firstLoad = Some(Some(t))
          /\ df = Some(t)
          /\ ui = << UiElem("markdown", "title", << >>, << >>),
                     UiElem("info", "sidebar", << csv_file_path >>, << >>) >>
                  \o load_data(GoodFile(t)).msgs
    /\ fsReads = 1
    /\ passes = 1
    /\ validations = 0
    /\ okLoads = 1
    /\ pc = "validate"
    /\ steps = << "title", "load" >>
    /\ selected_regions = << >>
    /\ selected_year = NoYear
    /\ df_melted = << >>
    /\ year_data = << >>

TableNext ==
    \/ Validate
    \/ EnsureColors
    \/ Sidebar
    \/ LineChart
    \/ RegionChart
    \/ YearPie
    \/ ExportTable
    \/ Insights

TableSpec == TableInit /\ [][TableNext]_vars

\* ------------------------------------------------------------ claims
PassSteps == Range(steps)
UiAt(src) == { i \in 1 .. Len(ui) : ui[i].src = src }

\* The sections of the script that follow the schema check.
DownstreamSteps ==
    { "colors", "sidebar", "line_chart", "cards", "melt", "region_chart",
      "year_slice", "export", "table", "insights" }
\* The st.* calls that make up the dashboard proper.
DashboardKinds == { "chart", "card", "multiselect", "slider", "download", "dataframe" }

\* A fatal condition has been met in this pass: load returned None or a table
\* without rows, or the schema check ran on a table lacking a required column.
FatalSeen ==
    /\ "load" \in PassSteps
    /\ \/ df = None
       \/ df # None /\ df[1].rows = << >>
       \/ df # None /\ "validate" \in PassSteps /\ ~ (RequiredSet \subseteq df[1].cols)

SpecKind(f) ==
    IF ~ f.exists THEN "NotFound"
    ELSE IF ~ f.readable THEN "PermissionDenied"
    ELSE IF f.raises \in { "ParserError", "EmptyDataError", "UnicodeDecodeError" }
         THEN "ParseError"
    ELSE IF f.raises # "none" THEN "Unknown"
    ELSE IF f.table.rows = << >> THEN "EmptyDataset"
    ELSE "Table"

\* The kind a load_data result reports: the except clause that wrote its message.
LoadKind(res) ==
    IF res.value # None THEN "Table"
    ELSE LET clause == res.msgs[1].labels[1]
         IN  CASE clause = "FileNotFoundError" -> "NotFound"
               [] clause = "PermissionError"   -> "PermissionDenied"
               [] clause = "ParserError"       -> "ParseError"
               [] clause = "ValueError"        -> "EmptyDataset"
               [] OTHER                        -> "Unknown"

\* C2: every execution of load on a file returns a table only when the file
\* exists, is readable, parses and has a row, and otherwise reports the one
\* failure kind of the precedence NotFound, PermissionDenied, ParseError,
\* EmptyDataset, Unknown.
C2_LoadPrecedence ==
    [][ (pc = "load" /\ pc' # "load" /\ cache[csv_file_path] = None) =>
            /\ cache'[csv_file_path] # None
            /\ LoadKind(cache'[csv_file_path][1]) = SpecKind(file)
            /\ (df' # None <=> SpecKind(file) = "Table") ]_vars

\* C3 (as stated): nothing on the page is ever written from inside the loader.
C3_LoaderSilent == \A i \in 1 .. Len(ui) : ui[i].src # "load_data"

\* C3 (amended): in every pass that has called load, the loader itself has
\* written exactly one element, a success message when it returned a table and
\* an error message when it returned None (replayed from the cache on a later
\* pass), and the caller's own error is written after it exactly when load
\* returned None.
C3_LoaderWritesOneMessage ==
    "load" \in PassSteps =>
        /\ Cardinality(UiAt("load_data")) = 1
        /\ \A i \in UiAt("load_data") :
              /\ ui[i].kind = (IF df = None THEN "error" ELSE "success")
              /\ \A j \in UiAt("main") : i < j
        /\ Cardinality(UiAt("main")) = (IF df = None THEN 1 ELSE 0)

\* A second pass served from the cache whose loader message is on the page.
C3_Witness ==
    /\ passes = 2
    /\ fsReads = 1
    /\ "load" \in PassSteps
    /\ UiAt("load_data") # {}

\* C4: over any sequence of render passes in one process the body of load
\* runs at most once for the path; every load returns the value the first
\* call returned, whatever has happened to the file since, and the cached
\* value stays that value although passes add colour columns to their table.
C4_LoadOncePerPath ==
    /\ fsReads <= 1
    /\ firstLoad # None =>
          /\ cache[csv_file_path] # None
          /\ cache[csv_file_path][1].value = firstLoad[1]
    /\ pc = "validate" => df = firstLoad[1]
    /\ ("load" \in PassSteps /\ df = None) => firstLoad[1] = None

\* A later pass has just loaded the table from the cache, after an earlier
\* pass validated (and enriched) it and the file has since become unloadable.
C4_Witness ==
    /\ passes >= 2
    /\ pc = "validate"
    /\ validations >= 1
    /\ RequiredSet \subseteq df[1].cols
    /\ Raised(file) # "none"

\* C5 (as stated): the schema check runs exactly once per successful load;
\* over render passes that reuse one memoized load it is not run again, so
\* it has never run more often than the loader's body has returned a table.
C5_ValidateOncePerLoad == validations <= okLoads

RECURSIVE CountIn(_, _)
CountIn(seq, x) ==
    IF seq = << >> THEN 0
    ELSE (IF Head(seq) = x THEN 1 ELSE 0) + CountIn(Tail(seq), x)

IndexOf(seq, x) == CHOOSE i \in 1 .. Len(seq) : seq[i] = x

\* C5 (amended): the schema check runs exactly once in every render pass whose
\* load returned a table, passes served from the memoized load included; in
\* the pass it runs after the title, the sidebar path info and the loader's
\* message have been written and before colour enrichment, any reshaping and
\* any chart, card, table or export.
C5_ValidateOncePerPass ==
    /\ CountIn(steps, "validate") =
          (IF df # None /\ pc \notin { "idle", "load", "validate" } THEN 1 ELSE 0)
    /\ \A i \in 1 .. Len(steps) :
          steps[i] \in DownstreamSteps =>
              /\ "validate" \in PassSteps
              /\ IndexOf(steps, "validate") < i
    /\ pc = "validate" =>
          /\ Len(ui) = 3
          /\ \A i \in 1 .. Len(ui) : ui[i].src \in { "title", "sidebar", "load_data" }

\* A pass served from the memoized load has run the check again and gone on.
C5_Witness ==
    /\ passes = 2
    /\ fsReads = 1
    /\ validations = 2
    /\ "colors" \in PassSteps

Absent == RequiredSet \ df[1].cols
NullColumns ==
    { c \in RequiredSet \cap df[1].cols : \E i \in 1 .. Len(df[1].rows) : df[1].rows[i][c] = NaN }
ValidateErrors == { i \in UiAt("validate") : ui[i].kind = "error" }
ValidateWarnings == { i \in UiAt("validate") : ui[i].kind = "warning" }

\* C6: once the schema check has run on a table, it has failed (the pass is
\* stopped) exactly when a required column is absent, and then its error names
\* exactly the absent required columns, each once; when all six are present
\* it has written exactly one warning for each required column that holds a
\* missing value, and none for any other column.
C6_ValidateExact ==
    "validate" \in PassSteps =>
        /\ (pc = "stopped") <=> (Absent # {})
        /\ Absent # {} =>
              /\ Cardinality(ValidateErrors) = 1
              /\ \A i \in ValidateErrors :
                    /\ Range(ui[i].labels) = Absent
                    /\ Len(ui[i].labels) = Cardinality(Absent)
              /\ ValidateWarnings = {}
        /\ Absent = {} =>
              /\ ValidateErrors = {}
              /\ Cardinality(ValidateWarnings) = Cardinality(NullColumns)
              /\ { ui[i].labels[1] : i \in ValidateWarnings } = NullColumns

\* The check has failed on a table lacking several required columns.
C6_Witness ==
    /\ "validate" \in PassSteps
    /\ Cardinality(Absent) >= 2
    /\ pc = "stopped"

\* The shares held by the rows whose year is y.
SharesAtYear(t, y) ==
    { t.rows[k]["global_south_share_pct"] :
        k \in { k \in 1 .. Len(t.rows) : t.rows[k]["year"] = y } }

\* C7: on every validated table, here even one without any missing value,
\* the summary card labelled with the minimum year shows the share of a row
\* of that year, and the card labelled with the maximum year shows the share
\* of a row of that year, whatever the order of the rows in the file.
C7_EndpointsByYear ==
    NullColumns = {} =>
        /\ \A i \in UiAt("start_card") :
              /\ ui[i].nums[1] = ColMin(df[1], "year")
              /\ ui[i].nums[2] \in SharesAtYear(df[1], ui[i].nums[1])
        /\ \A i \in UiAt("current_card") :
              /\ ui[i].nums[1] = ColMax(df[1], "year")
              /\ ui[i].nums[2] \in SharesAtYear(df[1], ui[i].nums[1])

MeltRecord(t, i, region) ==
    [year |-> t.rows[i]["year"], region |-> region,
     contribution |-> t.rows[i][ContribCol(region)]]

\* Where a year first appears in the table, and a region in the selection.
YearRank(y) == Min({ i \in 1 .. Len(df[1].rows) : df[1].rows[i]["year"] = y })
RegionRank(r) == Min({ j \in 1 .. Len(selected_regions) : selected_regions[j] = r })

\* C8 (as stated): the melted rows are ordered by the table's year order first
\* and by the order of the selected regions second: all rows of one year
\* appear together, in region-selection order, before any row of the next year.
C8_MeltYearMajor ==
    "melt" \in PassSteps =>
        \A p, q \in 1 .. Len(df_melted) :
            p < q =>
                \/ YearRank(df_melted[p].year) < YearRank(df_melted[q].year)
                \/ /\ YearRank(df_melted[p].year) = YearRank(df_melted[q].year)
                   /\ RegionRank(df_melted[p].region) <= RegionRank(df_melted[q].region)

\* C8 (amended): the melted rows are ordered by the selected regions first and
\* by the table's rows second: all rows of one region appear together, in
\* the table's row (year) order, before any row of the next selected region.
C8_MeltRegionMajor ==
    "melt" \in PassSteps =>
        LET n == Len(df[1].rows)
            k == Len(selected_regions)
        IN  /\ Len(df_melted) = n * k
            /\ \A p \in 1 .. Len(df_melted) :
                  df_melted[p] =
                      MeltRecord(df[1], ((p - 1) % n) + 1, selected_regions[((p - 1) \div n) + 1])

\* Two rows of different years melted over at least two regions.
C8_Witness ==
    /\ "melt" \in PassSteps
    /\ Len(selected_regions) >= 2
    /\ Len(df[1].rows) >= 2
    /\ df[1].rows[1]["year"] # df[1].rows[2]["year"]

RECURSIVE SumPairs(_)
SumPairs(S) ==
    IF S = {} THEN 0
    ELSE LET x == CHOOSE x \in S : TRUE IN x[Len(x)] + SumPairs(S \ { x })

\* Sum of the melted contributions of year y, missing values skipped.
MeltedSum(y) ==
    SumPairs({ << p, df_melted[p].contribution >> :
                 p \in { q \in 1 .. Len(df_melted) :
                           df_melted[q].year = y /\ df_melted[q].contribution # NaN } })

\* Sum of the selected wide columns over the rows of year y, missing values skipped.
WideSum(y) ==
    SumPairs({ x \in { << i, j, df[1].rows[i][ContribCol(selected_regions[j])] >> :
                         i \in { r \in 1 .. Len(df[1].rows) : df[1].rows[r]["year"] = y },
                         j \in 1 .. Len(selected_regions) } :
                 x[3] # NaN })

\* C9: for every validated table and every selection of k regions the melt
\* holds exactly k * rows(table) records, every record's region is a selected
\* region name, and per year the records' contributions sum to the sum of
\* that year's selected wide columns.
C9_MeltCountAndSums ==
    "melt" \in PassSteps =>
        /\ Len(df_melted) = Len(selected_regions) * Len(df[1].rows)
        /\ \A p \in 1 .. Len(df_melted) : df_melted[p].region \in Range(selected_regions)
        /\ \A y \in { df[1].rows[i]["year"] : i \in 1 .. Len(df[1].rows) } :
              MeltedSum(y) = WideSum(y)

\* Two selected regions melted over a table of two rows.
C9_Witness ==
    /\ "melt" \in PassSteps
    /\ Len(selected_regions) = 2
    /\ Len(df[1].rows) = 2
    /\ Len(df_melted) = 4

\* C10: once the year slider has produced a year, year_data holds exactly the
\* rows of that year; when there is none, a warning takes the place of the
\* pie chart, nothing is raised, and the pass goes on to write the exports,
\* the data table and the insights.
C10_AbsentYearIsNotFatal ==
    selected_year # NoYear =>
        /\ year_data = SelectSeq(df[1].rows, LAMBDA row : row["year"] = selected_year)
        /\ year_data = << >> =>
              /\ UiAt("pie") = {}
              /\ \E i \in UiAt("year_slice") :
                    ui[i].kind = "warning" /\ ui[i].nums = << selected_year >>
              /\ pc # "crashed"
              /\ pc \in { "export", "insights", "done" }
              /\ pc = "done" => { "export", "table", "insights" } \subseteq PassSteps

\* The table load handed to this pass, before any enrichment.
LoadedTable == firstLoad[1][1]
ColourColumns == { ColorCol(regions[i]) : i \in 1 .. Len(regions) }

\* C11: once the colour enrichment has run, applying it again changes
\* nothing; the table has a colour column for each of the four regions; a
\* colour column the file already carried is as it was loaded, a colour
\* column that was added holds the region's colour in every row, and every
\* other column and the number and order of rows are as loaded.
C11_EnsureColorsIdempotent ==
    "colors" \in PassSteps =>
        /\ ensure_colors(df[1]) = df[1]
        /\ df[1].cols = LoadedTable.cols \cup ColourColumns
        /\ Len(df[1].rows) = Len(LoadedTable.rows)
        /\ \A i \in 1 .. Len(df[1].rows) :
              /\ \A c \in LoadedTable.cols : df[1].rows[i][c] = LoadedTable.rows[i][c]
              /\ \A j \in 1 .. Len(regions) :
                    ColorCol(regions[j]) \notin LoadedTable.cols =>
                        df[1].rows[i][ColorCol(regions[j])] = region_color_of[regions[j]]

\* The enrichment has run on a table that came with some colour columns, in
\* a colour of its own, and lacked others.
C11_Witness ==
    /\ "colors" \in PassSteps
    /\ ColourColumns \cap LoadedTable.cols # {}
    /\ ColourColumns \ LoadedTable.cols # {}
    /\ \E c \in ColourColumns \cap LoadedTable.cols : df[1].rows[1][c] = "#000000"

\* C12: on a validated, non-empty table, here even one without any missing
\* value, whatever subset of the four regions the multiselect returns (the
\* empty one included), the pass raises nothing: it does not end in an
\* unhandled error, and once it has ended, the region reshape, the bar
\* chart with its value range, the year section and the largest-contributor
\* insight have all been produced.
C12_EverySelectionCompletes ==
    ("sidebar" \in PassSteps /\ NullColumns = {}) =>
        /\ pc # "crashed"
        /\ pc = "done" =>
              /\ { "melt", "region_chart", "year_slice", "insights" } \subseteq PassSteps
              /\ UiAt("region_chart") # {}
              /\ UiAt("insights") # {}
====
